---- MODULE Spec2Model ----
(***************************************************************************)
(* SQLQueryTool (src/src/mastra/tools/sqlQueryTool.ts) and                 *)
(* VisualizationTool (src/src/mastra/tools/visualizationTool.ts).          *)
(*                                                                         *)
(* Strings are sequences of one-character strings, so that includes,      *)
(* match, split, trim, replace, toString and parseFloat are computed the   *)
(* way the code computes them.  A row is the ordered sequence of its       *)
(* entries [k, v] (insertion order, as Object.keys reports it).  A value   *)
(* is a tagged record: number (an exact rational n/d), NaN, string, null,  *)
(* boolean or undefined.                                                   *)
(***************************************************************************)
EXTENDS Integers, Sequences, FiniteSets

VARIABLES data, columns, call, result

vars == <<data, columns, call, result>>

(***************************************************************************)
(* Bounds of the model.                                                    *)
(***************************************************************************)
\* longest table enumerated row by row
MaxRows == 3
\* longest base table repeated to build a long table
MaxBaseRows == 2
\* rows of the longest tables: enough for more than ten histogram bins
HistogramRows == 101

(***************************************************************************)
(* Characters and strings.                                                 *)
(***************************************************************************)
LowerLetters == <<"a","b","c","d","e","f","g","h","i","j","k","l","m",
                  "n","o","p","q","r","s","t","u","v","w","x","y","z">>

UpperLetters == <<"A","B","C","D","E","F","G","H","I","J","K","L","M",
                  "N","O","P","Q","R","S","T","U","V","W","X","Y","Z">>

Digits == <<"0","1","2","3","4","5","6","7","8","9">>

Range(f) == {f[i] : i \in DOMAIN f}

\* the upper-case letter of each lower-case letter
UpperTable ==
  [c \in Range(LowerLetters) |-> UpperLetters[CHOOSE i \in 1..26 : LowerLetters[i] = c]]

\* String.prototype.toUpperCase, one character
UpperChar(c) == IF c \in DOMAIN UpperTable THEN UpperTable[c] ELSE c

\* String.prototype.toUpperCase
ToUpperCase(s) == [i \in 1..Len(s) |-> UpperChar(s[i])]

\* the regular expression class \s
IsSpace(c) == c \in {" ", "\t", "\n"}

\* the regular expression class \w
IsWord(c) == c \in Range(LowerLetters) \cup Range(UpperLetters) \cup Range(Digits) \cup {"_"}

\* the regular expression class . (no line terminator)
IsDot(c) == c # "\n"

IsDigit(c) == c \in Range(Digits)

DigitVal(c) == (CHOOSE i \in 1..10 : Digits[i] = c) - 1

\* String.prototype.trim
Trim(s) ==
  LET keep == {i \in 1..Len(s) : ~IsSpace(s[i])}
  IN IF keep = {} THEN <<>>
     ELSE SubSeq(s, CHOOSE i \in keep : \A j \in keep : i <= j,
                    CHOOSE i \in keep : \A j \in keep : i >= j)

\* String.prototype.includes
Includes(s, sub) ==
  \E i \in 1..(Len(s) - Len(sub) + 1) : SubSeq(s, i, i + Len(sub) - 1) = sub

\* Array.prototype.includes on a list of strings
ListIncludes(list, s) == \E i \in 1..Len(list) : list[i] = s

\* a keyword (given in upper case) matched at position i under the flag /i
MatchCI(s, i, kw) ==
  /\ i >= 1
  /\ i + Len(kw) - 1 <= Len(s)
  /\ ToUpperCase(SubSeq(s, i, i + Len(kw) - 1)) = kw

\* the length of the longest run of \s characters starting at position i
SpaceRun(s, i) ==
  LET stops == {j \in i..Len(s) : ~IsSpace(s[j])}
  IN IF stops = {} THEN Len(s) - i + 1
     ELSE (CHOOSE j \in stops : \A k \in stops : j <= k) - i

\* the length of the longest run of \w characters starting at position i
WordRun(s, i) ==
  LET stops == {j \in i..Len(s) : ~IsWord(s[j])}
  IN IF stops = {} THEN Len(s) - i + 1
     ELSE (CHOOSE j \in stops : \A k \in stops : j <= k) - i

\* String.prototype.replace(/['"]/g, '')
StripQuotes(s) == SelectSeq(s, LAMBDA c : c \notin {"'", "\""})

\* String.prototype.split('='): the parts between the separators
RECURSIVE SplitEq(_)
SplitEq(s) ==
  LET eqs == {i \in 1..Len(s) : s[i] = "="}
  IN IF eqs = {} THEN <<s>>
     ELSE LET p == CHOOSE i \in eqs : \A j \in eqs : i <= j
          IN <<SubSeq(s, 1, p - 1)>> \o SplitEq(SubSeq(s, p + 1, Len(s)))

\* decimal digits of a natural number
RECURSIVE NatToString(_)
NatToString(n) ==
  IF n < 10 THEN <<Digits[n + 1]>>
  ELSE NatToString(n \div 10) \o <<Digits[(n % 10) + 1]>>

\* digits to the natural number they write
RECURSIVE ParseNat(_)
ParseNat(s) ==
  IF s = <<>> THEN 0
  ELSE 10 * ParseNat(SubSeq(s, 1, Len(s) - 1)) + DigitVal(s[Len(s)])

\* concatenation of a sequence of sequences
RECURSIVE ConcatAll(_)
ConcatAll(ss) == IF ss = <<>> THEN <<>> ELSE Head(ss) \o ConcatAll(Tail(ss))

(***************************************************************************)
(* Values (z.any()) and rows (z.record).                                   *)
(***************************************************************************)
RECURSIVE Gcd(_, _)
Gcd(a, b) == IF b = 0 THEN a ELSE Gcd(b, a % b)

Abs(n) == IF n < 0 THEN -n ELSE n

\* the number n / d (d > 0), in lowest terms
Rat(n, d) ==
  LET g == Gcd(Abs(n), d)
  IN [t |-> "num", n |-> n \div g, d |-> d \div g, s |-> <<>>]

Num(n) == [t |-> "num", n |-> n, d |-> 1, s |-> <<>>]

NaN == [t |-> "nan", n |-> 0, d |-> 1, s |-> <<>>]

Str(s) == [t |-> "str", n |-> 0, d |-> 1, s |-> s]

Null == [t |-> "null", n |-> 0, d |-> 1, s |-> <<>>]

Undefined == [t |-> "undef", n |-> 0, d |-> 1, s |-> <<>>]

Bool(b) == [t |-> "bool", n |-> IF b THEN 1 ELSE 0, d |-> 1, s |-> <<>>]

\* typeof val === 'number' && !isNaN(val)
IsNumber(v) == v.t = "num"

\* a value in a condition: false for 0, NaN, '', null, undefined and false
Truthy(v) ==
  CASE v.t = "num" -> v.n # 0
    [] v.t = "str" -> v.s # <<>>
    [] v.t = "bool" -> v.n = 1
    [] OTHER -> FALSE

\* a < b and a <= b on numbers
NumLess(a, b) == a.n * b.d < b.n * a.d

NumLeq(a, b) == a.n * b.d <= b.n * a.d

\* value.toString() of a value that has one (whole numbers, strings, booleans, NaN)
ToString(v) ==
  CASE v.t = "num" -> (IF v.n < 0 THEN <<"-">> ELSE <<>>) \o NatToString(Abs(v.n))
    [] v.t = "str" -> v.s
    [] v.t = "bool" -> IF v.n = 1 THEN <<"t","r","u","e">> ELSE <<"f","a","l","s","e">>
    [] OTHER -> <<"N","a","N">>

\* parseFloat of a string: leading white space, a sign, then the longest run of
\* digits; whatever follows is ignored, and no digit gives NaN.  (The strings of
\* the model hold no '.', no exponent and no "Infinity".)
ParseFloatStr(s) ==
  LET p == 1 + SpaceRun(s, 1)
      signed == p <= Len(s) /\ s[p] \in {"-", "+"}
      q == IF signed THEN p + 1 ELSE p
      stops == {j \in q..Len(s) : ~IsDigit(s[j])}
      e == IF stops = {} THEN Len(s) + 1 ELSE CHOOSE j \in stops : \A k \in stops : j <= k
      m == ParseNat(SubSeq(s, q, e - 1))
  IN IF e = q THEN NaN
     ELSE Num(IF signed /\ s[p] = "-" THEN -m ELSE m)

\* parseFloat(value): a number is itself; null, undefined and booleans give NaN
ParseFloat(v) ==
  CASE v.t = "num" -> v
    [] v.t = "str" -> ParseFloatStr(v.s)
    [] OTHER -> NaN

\* row[col]: undefined when the row has no such key
Get(row, col) ==
  IF \E i \in 1..Len(row) : row[i].k = col
  THEN row[CHOOSE i \in 1..Len(row) : row[i].k = col].v
  ELSE Undefined

\* Object.keys(row)
Keys(row) == [i \in 1..Len(row) |-> row[i].k]

Entry(k, v) == [k |-> k, v |-> v]

Min(a, b) == IF a <= b THEN a ELSE b

(***************************************************************************)
(* SQLQueryTool.                                                           *)
(***************************************************************************)
kwSELECT == <<"S","E","L","E","C","T">>

kwFROM == <<"F","R","O","M">>

kwCOUNT == <<"C","O","U","N","T">>

kwSUM == <<"S","U","M">>

kwAVG == <<"A","V","G">>

kwGROUP == <<"G","R","O","U","P">>

kwORDER == <<"O","R","D","E","R">>

kwBY == <<"B","Y">>

kwGROUPBY == <<"G","R","O","U","P"," ","B","Y">>

kwWHERE == <<"W","H","E","R","E">>

sUnknown == <<"U","n","k","n","o","w","n">>

\* rows sampled by getNumericColumns: data.slice(0, 10)
SampleSize == 10

\* getNumericColumns: the keys of the first row that hold a number in a sampled row
GetNumericColumns(rows) ==
  IF Len(rows) = 0 THEN <<>>
  ELSE SelectSeq(Keys(rows[1]),
         LAMBDA col : \E i \in 1..Min(SampleSize, Len(rows)) : IsNumber(Get(rows[i], col)))

\* getCategoricalColumns: the keys of the first row that are not numeric columns
GetCategoricalColumns(rows) ==
  IF Len(rows) = 0 THEN <<>>
  ELSE LET numericColumns == GetNumericColumns(rows)
       IN SelectSeq(Keys(rows[1]), LAMBDA col : ~ListIncludes(numericColumns, col))

\* data.map(row => row[col]).filter(val => typeof val === 'number' && !isNaN(val))
NumberValues(rows, col) ==
  SelectSeq([i \in 1..Len(rows) |-> Get(rows[i], col)], LAMBDA v : IsNumber(v))

\* values.reduce((sum, val) => sum + val, 0), on whole numbers
RECURSIVE SumOf(_)
SumOf(values) ==
  IF Len(values) = 0 THEN 0
  ELSE IF Len(values) = 1 THEN values[1].n
  ELSE LET h == Len(values) \div 2
       IN SumOf(SubSeq(values, 1, h)) + SumOf(SubSeq(values, h + 1, Len(values)))

\* Math.min(...values) and Math.max(...values)
MinOf(values) == CHOOSE v \in Range(values) : \A w \in Range(values) : NumLeq(v, w)

MaxOf(values) == CHOOSE v \in Range(values) : \A w \in Range(values) : NumLeq(w, v)

\* the key `${prefix}_${col}`
Field(prefix, col) == prefix \o <<"_">> \o col

\* the count_, sum_ and avg_ fields of one numeric column (none without a value)
CountSumAvg(rows, col) ==
  LET values == NumberValues(rows, col)
  IN IF Len(values) > 0
     THEN << Entry(Field(<<"c","o","u","n","t">>, col), Num(Len(values))),
             Entry(Field(<<"s","u","m">>, col), Num(SumOf(values))),
             Entry(Field(<<"a","v","g">>, col), Rat(SumOf(values), Len(values))) >>
     ELSE <<>>

\* the min_ and max_ fields of one numeric column
MinMax(rows, col) ==
  LET values == NumberValues(rows, col)
  IN IF Len(values) > 0
     THEN << Entry(Field(<<"m","i","n">>, col), MinOf(values)),
             Entry(Field(<<"m","a","x">>, col), MaxOf(values)) >>
     ELSE <<>>

ExecuteAggregateQuery(query, rows, cols) ==
  LET numericColumns == GetNumericColumns(rows)
      row == ConcatAll([c \in 1..Len(numericColumns) |->
               CountSumAvg(rows, numericColumns[c]) \o MinMax(rows, numericColumns[c])])
  IN [data |-> <<row>>, queryType |-> "AGGREGATE"]

\* query.match(/GROUP\s+BY\s+(\w+)/i) at start position i: the end of the white
\* space after BY, or 0 when there is no match at i
GroupByMatchAt(q, i) ==
  LET ws1 == SpaceRun(q, i + 5)
      by == i + 5 + ws1
      ws2 == SpaceRun(q, by + 2)
      w == by + 2 + ws2
  IN IF /\ MatchCI(q, i, kwGROUP) /\ ws1 >= 1 /\ MatchCI(q, by, kwBY)
        /\ ws2 >= 1 /\ WordRun(q, w) >= 1
     THEN w ELSE 0

\* the smallest of a set of start positions: where the leftmost match starts
Leftmost(starts) == CHOOSE a \in starts : \A b \in starts : a <= b

\* the group (\w+) of a match, w being the position of its first character
GroupByWord(q, w) == SubSeq(q, w, w + WordRun(q, w) - 1)

\* match ? match[1] : null, starts being the positions the pattern matches at
GroupByColumnFrom(q, starts) ==
  IF starts = {} THEN <<>> ELSE GroupByWord(q, GroupByMatchAt(q, Leftmost(starts)))

\* extractGroupByColumn: the \w+ of the leftmost match; <<>> stands for null
ExtractGroupByColumn(q) == GroupByColumnFrom(q, {i \in 1..Len(q) : GroupByMatchAt(q, i) > 0})

\* \s+GROUP\s+BY or \s+ORDER\s+BY matched at position j
ClauseEndKeyword(q, j, kw) ==
  LET ws1 == SpaceRun(q, j)
      k == j + ws1
      ws2 == SpaceRun(q, k + Len(kw))
  IN /\ ws1 >= 1 /\ MatchCI(q, k, kw)
     /\ ws2 >= 1 /\ MatchCI(q, k + Len(kw) + ws2, kwBY)

\* (?:\s+GROUP\s+BY|\s+ORDER\s+BY|$) matched at position j
ClauseEnd(q, j) ==
  \/ j = Len(q) + 1
  \/ ClauseEndKeyword(q, j, kwGROUP)
  \/ ClauseEndKeyword(q, j, kwORDER)

\* the ways /WHERE\s+(.+?)(?:...)/i matches at start i: <<k, n>> for \s+ of
\* length k and a group (.+?) of length n
WhereMatches(q, i) ==
  IF ~MatchCI(q, i, kwWHERE) THEN {}
  ELSE LET p == i + 5
       IN {kn \in (1..SpaceRun(q, p)) \X (1..Len(q)) :
             /\ p + kn[1] + kn[2] - 1 <= Len(q)
             /\ \A j \in (p + kn[1])..(p + kn[1] + kn[2] - 1) : IsDot(q[j])
             /\ ClauseEnd(q, p + kn[1] + kn[2])}

\* of the ways the pattern matches at one start, the one the engine takes: the
\* longest \s+, then the shortest (.+?)
WhereMatchTaken(ms) ==
  CHOOSE a \in ms : \A b \in ms :
    \/ a[1] > b[1]
    \/ a[1] = b[1] /\ a[2] <= b[2]

\* match[1].trim() of the match <<k, n>> that starts at i
WhereGroup(q, i, m) == Trim(SubSeq(q, i + 5 + m[1], i + 5 + m[1] + m[2] - 1))

\* the trimmed group of the match that starts at i
WhereGroupAt(q, i) == WhereGroup(q, i, WhereMatchTaken(WhereMatches(q, i)))

\* match ? match[1].trim() : null, starts being the positions the pattern matches at
FilterConditionFrom(q, starts) ==
  IF starts = {} THEN <<>> ELSE WhereGroupAt(q, Leftmost(starts))

\* extractFilterCondition: the leftmost match, \s+ greedy and (.+?) lazy, its
\* group trimmed; <<>> stands for null and for the empty string (both falsy)
ExtractFilterCondition(q) == FilterConditionFrom(q, {i \in 1..Len(q) : WhereMatches(q, i) # {}})

\* the callback of data.filter, had it dropped the rows of a clause it cannot read
FilterRowPassesStrict(row, filterCondition) ==
  LET parts == SplitEq(filterCondition)
  IN /\ parts[1] # <<>> /\ Len(parts) >= 2 /\ parts[2] # <<>>
     /\ LET v == Get(row, Trim(parts[1]))
        IN v.t \notin {"null", "undef"} /\ ToString(v) = StripQuotes(Trim(parts[2]))

\* the callback of data.filter in executeFilterQuery
FilterRowPasses(row, filterCondition) ==
  LET parts == SplitEq(filterCondition)
      column == parts[1]
  IN IF column # <<>> /\ Len(parts) >= 2 /\ parts[2] # <<>>
     THEN LET cleanColumn == Trim(column)
              cleanValue == StripQuotes(Trim(parts[2]))
              v == Get(row, cleanColumn)
          IN v.t \notin {"null", "undef"} /\ ToString(v) = cleanValue
     ELSE TRUE

\* executeFilterQuery from the extracted clause on
FilterOn(rows, filterCondition) ==
  IF filterCondition = <<>>
  THEN [data |-> rows, queryType |-> "SELECT"]
  ELSE [data |-> SelectSeq(rows, LAMBDA row : FilterRowPasses(row, filterCondition)),
        queryType |-> "FILTER"]

ExecuteFilterQuery(query, rows, cols) == FilterOn(rows, ExtractFilterCondition(query))

\* executeSelectQuery, had it applied the WHERE clause of the query
ExecuteSelectQueryFiltering(query, rows, cols) ==
  [data |-> ExecuteFilterQuery(query, rows, cols).data, queryType |-> "SELECT"]

ExecuteSelectQuery(query, rows, cols) == [data |-> rows, queryType |-> "SELECT"]

\* row[groupByColumn] || 'Unknown'
GroupValue(row, groupByColumn) ==
  LET v == Get(row, groupByColumn)
  IN IF Truthy(v) THEN v ELSE Str(sUnknown)

\* the keys of a Map in insertion order: the distinct elements, first seen first
FirstSeen(s) ==
  LET firsts == SelectSeq([i \in 1..Len(s) |-> i], LAMBDA i : \A j \in 1..(i - 1) : s[j] # s[i])
  IN [k \in 1..Len(firsts) |-> s[firsts[k]]]

\* the result row of one group
GroupRow(groupByColumn, groupValue, groupData) ==
  LET numericColumns == GetNumericColumns(groupData)
  IN <<Entry(groupByColumn, groupValue)>> \o
     ConcatAll([c \in 1..Len(numericColumns) |-> CountSumAvg(groupData, numericColumns[c])])

\* executeGroupByQuery from the extracted column on
GroupOn(rows, cols, groupByColumn) ==
  IF groupByColumn = <<>> \/ ~ListIncludes(cols, groupByColumn)
  THEN [data |-> rows, queryType |-> "SELECT"]
  ELSE LET groups == FirstSeen([i \in 1..Len(rows) |-> GroupValue(rows[i], groupByColumn)])
       IN [data |-> [j \in 1..Len(groups) |->
                      GroupRow(groupByColumn, groups[j],
                        SelectSeq(rows, LAMBDA row : GroupValue(row, groupByColumn) = groups[j]))],
           queryType |-> "GROUP_BY"]

ExecuteGroupByQuery(query, rows, cols) == GroupOn(rows, cols, ExtractGroupByColumn(query))

\* executeQuery, had it tested GROUP BY before the aggregate functions
ExecuteQueryGroupByFirst(query, rows, cols) ==
  LET upperQuery == Trim(ToUpperCase(query))
  IN IF Includes(upperQuery, kwSELECT) /\ Includes(upperQuery, kwFROM)
       THEN ExecuteSelectQuery(query, rows, cols)
     ELSE IF Includes(upperQuery, kwGROUPBY)
       THEN ExecuteGroupByQuery(query, rows, cols)
     ELSE IF Includes(upperQuery, kwCOUNT) \/ Includes(upperQuery, kwSUM) \/ Includes(upperQuery, kwAVG)
       THEN ExecuteAggregateQuery(query, rows, cols)
     ELSE IF Includes(upperQuery, kwWHERE)
       THEN ExecuteFilterQuery(query, rows, cols)
     ELSE [data |-> rows, queryType |-> "SELECT"]

ExecuteQuery(query, rows, cols) ==
  LET upperQuery == Trim(ToUpperCase(query))
  IN IF Includes(upperQuery, kwSELECT) /\ Includes(upperQuery, kwFROM)
       THEN ExecuteSelectQuery(query, rows, cols)
     ELSE IF Includes(upperQuery, kwCOUNT) \/ Includes(upperQuery, kwSUM) \/ Includes(upperQuery, kwAVG)
       THEN ExecuteAggregateQuery(query, rows, cols)
     ELSE IF Includes(upperQuery, kwGROUPBY)
       THEN ExecuteGroupByQuery(query, rows, cols)
     ELSE IF Includes(upperQuery, kwWHERE)
       THEN ExecuteFilterQuery(query, rows, cols)
     ELSE [data |-> rows, queryType |-> "SELECT"]

\* the object execute returns for the result r of executeQuery
SQLSuccess(r) ==
  [success |-> TRUE,
   result |-> r.data,
   queryType |-> r.queryType,
   summary |-> [rowCount |-> Len(r.data),
                columnCount |-> IF Len(r.data) > 0 THEN Len(Keys(r.data[1])) ELSE 0,
                numericColumns |-> GetNumericColumns(r.data),
                categoricalColumns |-> GetCategoricalColumns(r.data)]]

\* SQLQueryTool.execute; nothing in the try block throws on rows that are records,
\* so the catch branch returns for no input
SQLExecuteResult(query, rows, cols) == SQLSuccess(ExecuteQuery(query, rows, cols))

(***************************************************************************)
(* VisualizationTool.  Sums and means are exact (the code computes them in *)
(* floating point).                                                        *)
(***************************************************************************)
tBar == <<"b","a","r">>

tLine == <<"l","i","n","e">>

tScatter == <<"s","c","a","t","t","e","r">>

tPie == <<"p","i","e">>

tHistogram == <<"h","i","s","t","o","g","r","a","m">>

tBox == <<"b","o","x">>

\* z.enum(['bar', 'line', 'scatter', 'pie', 'histogram', 'box'])
ChartTypes == {tBar, tLine, tScatter, tPie, tHistogram, tBox}

\* row[xAxis]?.toString() || 'Unknown'
XValue(row, xAxis) ==
  LET v == Get(row, xAxis)
  IN IF v.t \in {"null", "undef"} \/ ToString(v) = <<>> THEN sUnknown ELSE ToString(v)

\* the pairs (xValue, parseFloat(row[yAxis])) of the rows whose y is not NaN
ParsedPairs(rows, xAxis, yAxis) ==
  SelectSeq([i \in 1..Len(rows) |-> [x |-> XValue(rows[i], xAxis), y |-> ParseFloat(Get(rows[i], yAxis))]],
            LAMBDA pr : pr.y.t # "nan")

\* the y values collected under one key of the Map grouped
GroupYValues(pairs, xValue) ==
  LET own == SelectSeq(pairs, LAMBDA pr : pr.x = xValue)
  IN [i \in 1..Len(own) |-> own[i].y]

\* the keys of the Map grouped, in insertion order
GroupKeys(pairs) == FirstSeen([i \in 1..Len(pairs) |-> pairs[i].x])

\* the point of one key, had it held the total of the y values for their mean
CategoryPointTotal(xValue, yValues) ==
  [x |-> xValue, y |-> Num(SumOf(yValues)), count |-> Len(yValues)]

\* the point of one key: the mean of its y values and their number
CategoryPoint(xValue, yValues) ==
  [x |-> xValue, y |-> Rat(SumOf(yValues), Len(yValues)), count |-> Len(yValues)]

\* Array.from(grouped.entries()).map(...)
CategoricalSeries(pairs, grouped) ==
  [j \in 1..Len(grouped) |-> CategoryPoint(grouped[j], GroupYValues(pairs, grouped[j]))]

\* processCategoricalData from the parsed pairs on
CategoricalFrom(pairs) == CategoricalSeries(pairs, GroupKeys(pairs))

ProcessCategoricalData(rows, xAxis, yAxis) == CategoricalFrom(ParsedPairs(rows, xAxis, yAxis))

ProcessScatterData(rows, xAxis, yAxis) ==
  SelectSeq([i \in 1..Len(rows) |->
               [x |-> ParseFloat(Get(rows[i], xAxis)), y |-> ParseFloat(Get(rows[i], yAxis))]],
            LAMBDA point : point.x.t # "nan" /\ point.y.t # "nan")

\* parseFloat(row[yAxis]) || 0
PieYValue(row, yAxis) ==
  LET y == ParseFloat(Get(row, yAxis))
  IN IF Truthy(y) THEN y ELSE Num(0)

ProcessPieData(rows, xAxis, yAxis) ==
  LET grouped == FirstSeen([i \in 1..Len(rows) |-> XValue(rows[i], xAxis)])
  IN [j \in 1..Len(grouped) |->
        [label |-> grouped[j],
         value |-> Num(SumOf([i \in 1..Len(rows) |->
                                IF XValue(rows[i], xAxis) = grouped[j]
                                THEN PieYValue(rows[i], yAxis) ELSE Num(0)]))]]

\* the largest number of histogram bins: Math.min(10, ...)
HistogramMaxBins == 10

\* Math.ceil(Math.sqrt(n))
CeilSqrt(n) == CHOOSE k \in 0..n : k * k >= n /\ (k = 0 \/ (k - 1) * (k - 1) < n)

\* Math.min(Math.floor((value - min) / binSize), binCount - 1) with
\* binSize = (max - min) / binCount.  With max = min the quotient is 0 / 0 = NaN,
\* Math.floor and Math.min keep it NaN; 0 stands for that index, which names no bin
BinIndex(value, min, max, binCount) ==
  IF max = min THEN 0
  ELSE 1 + Min(((value - min) * binCount) \div (max - min), binCount - 1)

\* bins after values.forEach(... bins[binIndex]++): bins[NaN]++ writes the
\* property "NaN" and leaves every element of the array as it was
BinCounts(values, min, max, binCount) ==
  [b \in 1..binCount |->
     Cardinality({i \in 1..Len(values) : BinIndex(values[i].n, min, max, binCount) = b})]

\* bins.map((count, index) => ({x: min + (index + 0.5) * binSize, y: count}))
HistogramSeries(min, max, binCount, bins) ==
  [b \in 1..binCount |->
     [x |-> Rat(2 * binCount * min + (2 * (b - 1) + 1) * (max - min), 2 * binCount),
      y |-> bins[b]]]

\* the series of the values between min and max, counted in binCount bins
HistogramBins(values, min, max, binCount) ==
  HistogramSeries(min, max, binCount, BinCounts(values, min, max, binCount))

\* processHistogramData from the parsed values on
HistogramOf(values) ==
  IF Len(values) = 0 THEN <<>>
  ELSE HistogramBins(values, MinOf(values).n, MaxOf(values).n,
                     Min(HistogramMaxBins, CeilSqrt(Len(values))))

ProcessHistogramData(rows, xAxis) ==
  HistogramOf(SelectSeq([i \in 1..Len(rows) |-> ParseFloat(Get(rows[i], xAxis))],
                        LAMBDA v : v.t # "nan"))

\* the values left in the order the rows gave them
SortOmitted(s) == s

\* yValues.sort((a, b) => a - b): the k-th element of the result is the value
\* that fewer than k elements are below and at least k elements are not above
SortAscending(s) ==
  [k \in 1..Len(s) |->
     CHOOSE v \in Range(s) :
       /\ Cardinality({i \in 1..Len(s) : NumLess(s[i], v)}) < k
       /\ Cardinality({i \in 1..Len(s) : NumLeq(s[i], v)}) >= k]

\* sorted[Math.floor(sorted.length * num / 4)], num / 4 being 0.25, 0.5 or 0.75
Quartile(sorted, num) == sorted[((Len(sorted) * num) \div 4) + 1]

\* the entry of one group of the box series
BoxOfSorted(xValue, sorted) ==
  [x |-> xValue,
   min |-> sorted[1],
   q1 |-> Quartile(sorted, 1),
   median |-> Quartile(sorted, 2),
   q3 |-> Quartile(sorted, 3),
   max |-> sorted[Len(sorted)]]

BoxEntry(xValue, yValues) == BoxOfSorted(xValue, SortAscending(yValues))

\* Array.from(grouped.entries()).map(...)
BoxSeries(pairs, grouped) ==
  [j \in 1..Len(grouped) |-> BoxEntry(grouped[j], GroupYValues(pairs, grouped[j]))]

\* processBoxData from the parsed pairs on
BoxFrom(pairs) == BoxSeries(pairs, GroupKeys(pairs))

ProcessBoxData(rows, xAxis, yAxis) == BoxFrom(ParsedPairs(rows, xAxis, yAxis))

ProcessDataForChart(rows, xAxis, yAxis, chartType) ==
  IF chartType = tBar \/ chartType = tLine THEN ProcessCategoricalData(rows, xAxis, yAxis)
  ELSE IF chartType = tScatter THEN ProcessScatterData(rows, xAxis, yAxis)
  ELSE IF chartType = tPie THEN ProcessPieData(rows, xAxis, yAxis)
  ELSE IF chartType = tHistogram THEN ProcessHistogramData(rows, xAxis)
  ELSE IF chartType = tBox THEN ProcessBoxData(rows, xAxis, yAxis)
  ELSE rows

\* the switch of generateChartConfig: the fields a chart type adds to options
ChartSpecificOptions(chartType) ==
  CASE chartType = tBar -> <<[k |-> "barWidth", v |-> Rat(4, 5)]>>
    [] chartType = tLine -> <<[k |-> "lineWidth", v |-> Num(2)], [k |-> "showPoints", v |-> Bool(TRUE)]>>
    [] chartType = tScatter -> <<[k |-> "pointSize", v |-> Num(6)]>>
    [] chartType = tPie -> <<[k |-> "showPercentages", v |-> Bool(TRUE)]>>
    [] chartType = tHistogram -> <<[k |-> "barWidth", v |-> Num(1)]>>
    [] OTHER -> <<>>

\* generateChartConfig, called without a title and without options
GenerateChartConfig(chartType, chartData, xAxis, yAxis) ==
  [type |-> chartType,
   data |-> chartData,
   options |-> [title |-> <<UpperChar(Head(chartType))>> \o Tail(chartType) \o <<" ","C","h","a","r","t">>,
                xAxis |-> [label |-> xAxis],
                yAxis |-> [label |-> yAxis],
                color |-> "#3B82F6",
                width |-> 800,
                height |-> 600,
                showLegend |-> TRUE,
                more |-> ChartSpecificOptions(chartType)]]

\* a recommendation: its text, and the number the text holds (0 when it holds none)
Advice(text, n) == [text |-> text, n |-> n]

LineAdvice == Advice("Consider using a line chart for numeric X-axis data", 0)

BarAdvice == Advice("Consider using a bar chart for categorical X-axis data", 0)

ScatterAdvice == Advice("Scatter plots work best with numeric data on both axes", 0)

PieAdvice ==
  Advice("Pie charts become hard to read with more than 10 categories. Consider a bar chart instead.", 0)

OutlierAdvice(n) ==
  Advice("Found n potential outliers. Consider using a box plot to visualize the distribution.", n)

\* data.length > 10, the second condition of the pie recommendation
PieMaxCategories == 10

TooManyForPieFromLimit(rows) == Len(rows) >= PieMaxCategories

TooManyForPie(rows) == Len(rows) > PieMaxCategories

\* the values with Math.abs(val - mean) > 2 * std, mean and std (population) taken
\* over yNumbers; compared exactly, as n * (n*val - S)^2 > 4 * sum (n*w - S)^2
Outliers(yNumbers) ==
  LET n == Len(yNumbers)
      S == SumOf(yNumbers)
      dev == [i \in 1..n |-> Num((n * yNumbers[i].n - S) * (n * yNumbers[i].n - S))]
  IN SelectSeq(yNumbers, LAMBDA v : n * (n * v.n - S) * (n * v.n - S) > 4 * SumOf(dev))

GenerateRecommendations(rows, cols, chartType, xAxis, yAxis) ==
  LET xIsNumeric == \E i \in 1..Len(rows) : IsNumber(Get(rows[i], xAxis))
      yIsNumeric == \E i \in 1..Len(rows) : IsNumber(Get(rows[i], yAxis))
      yNumbers == NumberValues(rows, yAxis)
  IN (IF chartType = tBar /\ xIsNumeric THEN <<LineAdvice>> ELSE <<>>)
     \o (IF chartType = tLine /\ ~xIsNumeric THEN <<BarAdvice>> ELSE <<>>)
     \o (IF chartType = tScatter /\ (~xIsNumeric \/ ~yIsNumeric) THEN <<ScatterAdvice>> ELSE <<>>)
     \o (IF chartType = tPie /\ TooManyForPie(rows) THEN <<PieAdvice>> ELSE <<>>)
     \o (IF yIsNumeric /\ Len(yNumbers) > 0 /\ Len(Outliers(yNumbers)) > 0
         THEN <<OutlierAdvice(Len(Outliers(yNumbers)))>> ELSE <<>>)

\* the validation, had it left out the y axis of a histogram (which reads no y)
MissingAxisNoHistogramY(cols, chartType, xAxis, yAxis) ==
  IF ~ListIncludes(cols, xAxis) THEN [axis |-> "X", column |-> xAxis]
  ELSE IF chartType # tHistogram /\ ~ListIncludes(cols, yAxis) THEN [axis |-> "Y", column |-> yAxis]
  ELSE [axis |-> "", column |-> <<>>]

\* the validation of execute: the first axis that is not in columns, if any
MissingAxis(cols, chartType, xAxis, yAxis) ==
  IF ~ListIncludes(cols, xAxis) THEN [axis |-> "X", column |-> xAxis]
  ELSE IF ~ListIncludes(cols, yAxis) THEN [axis |-> "Y", column |-> yAxis]
  ELSE [axis |-> "", column |-> <<>>]

\* the object the catch block returns for the Error thrown on a missing axis
VizFailure(missing) ==
  [success |-> FALSE,
   error |-> [text |-> "-axis column not found in data",
              axis |-> missing.axis, column |-> missing.column]]

\* the object execute returns once chartData is computed
VizSuccess(rows, cols, chartType, xAxis, yAxis, chartData) ==
  [success |-> TRUE,
   chartData |-> chartData,
   chartConfig |-> GenerateChartConfig(chartType, chartData, xAxis, yAxis),
   recommendations |-> GenerateRecommendations(rows, cols, chartType, xAxis, yAxis)]

\* execute from the outcome of the validation on
VizOutcome(rows, cols, chartType, xAxis, yAxis, missing) ==
  IF missing.axis # ""
  THEN VizFailure(missing)
  ELSE VizSuccess(rows, cols, chartType, xAxis, yAxis,
                  ProcessDataForChart(rows, xAxis, yAxis, chartType))

\* VisualizationTool.execute: a thrown Error is caught and returned as the error
VizExecuteResult(rows, cols, chartType, xAxis, yAxis) ==
  VizOutcome(rows, cols, chartType, xAxis, yAxis, MissingAxis(cols, chartType, xAxis, yAxis))

(***************************************************************************)
(* Inputs: the tables, columns lists and queries the tools are called on.  *)
(***************************************************************************)
cG == <<"g">>

cX == <<"x">>

cY == <<"y">>

cZZ == <<"z","z">>

\* the rows of the tables given to SQLQueryTool
SQLRows ==
  { <<Entry(cG, Str(<<"a">>)), Entry(cX, Num(1))>>,
    <<Entry(cG, Str(<<"a","=","b">>)), Entry(cX, Num(3))>>,
    <<Entry(cG, Num(1)), Entry(cX, Str(<<"3">>))>>,
    <<Entry(cG, Num(0)), Entry(cX, NaN)>>,
    <<Entry(cX, Num(4))>>,
    <<Entry(cG, Null), Entry(cY, Num(5))>> }

\* every table of at most n rows of the set rows
TablesUpTo(rows, n) == UNION {[1..m -> rows] : m \in 0..n}

SQLTables == TablesUpTo(SQLRows, MaxRows)

\* the declared columns list; zz is a column of no list, y of no SQL list
SQLColumnLists == { <<cG, cX>> }

\* the rows of the tables given to VisualizationTool
VizRows ==
  { <<Entry(cX, Str(<<"a">>)), Entry(cY, Num(3))>>,
    <<Entry(cX, Str(<<"a">>)), Entry(cY, Num(1))>>,
    <<Entry(cX, Str(<<"b">>)), Entry(cY, Str(<<"2","x">>))>>,
    <<Entry(cX, Str(<<"b">>)), Entry(cY, Str(<<"z","z">>))>>,
    <<Entry(cY, Num(2))>>,
    <<Entry(cX, Num(7)), Entry(cY, Null)>> }

\* the table of n rows that repeats the table base
Repeat(base, n) == [i \in 1..n |-> base[((i - 1) % Len(base)) + 1]]

\* lengths around the limit of the pie recommendation
LongLengths == {MaxRows + 1, PieMaxCategories, PieMaxCategories + 1, PieMaxCategories + 5}

VizTables ==
  TablesUpTo(VizRows, MaxRows)
  \cup {Repeat(base, n) : base \in TablesUpTo(VizRows, MaxBaseRows) \ {<<>>}, n \in LongLengths}
  \cup {Repeat(base, HistogramRows) : base \in TablesUpTo(VizRows, MaxBaseRows) \ {<<>>}}

VizColumnLists == { <<cX, cY>> }

\* the (xAxis, yAxis) of the calls; zz is in no columns list
AxisPairs == { <<cX, cY>>, <<cY, cX>>, <<cY, cY>>, <<cZZ, cY>>, <<cX, cZZ>> }

\* how a query starts: nothing, SELECT with FROM, SELECT without FROM
QueryHeads ==
  {
    <<>>,
    <<"S","E","L","E","C","T"," ","*"," ","F","R","O","M"," ","d">>,
    <<"s","e","l","e","c","t"," ","g">>
  }

\* an aggregate function, or none
QueryAggregates ==
  {
    <<>>,
    <<" ","C","O","U","N","T","(","x",")">>
  }

\* the clauses that follow
QueryTails ==
  {
    <<>>,
    <<" ","W","H","E","R","E"," ","g"," ","="," ","'","a","'">>,
    <<" ","w","h","e","r","e"," ","g","=","1">>,
    <<" ","W","H","E","R","E"," ","g"," ","="," ","'","a","=","b","'">>,
    <<" ","W","H","E","R","E"," ","g"," ","="," ","\"","a","\"">>,
    <<" ","W","H","E","R","E"," ","g">>,
    <<" ","W","H","E","R","E"," ","="," ","a">>,
    <<" ","W","H","E","R","E"," ","g"," ","=">>,
    <<" ","W","H","E","R","E">>,
    <<" ","W","H","E","R","E","V","E","R">>,
    <<" ","W","H","E","R","E"," ","z","z"," ","="," ","1">>,
    <<" ","W","H","E","R","E"," ","g"," ","="," ","'","a","'"," ","O","R","D","E","R"," ","B","Y"," ","x">>,
    <<" ","W","H","E","R","E"," ","g"," ","="," ","'","a","'"," ","G","R","O","U","P"," "," ","B","Y"," ","x">>,
    <<" ","G","R","O","U","P"," ","B","Y"," ","g">>,
    <<" ","g","r","o","u","p"," ","b","y"," ","x">>,
    <<" ","G","R","O","U","P"," ","B","Y"," ","z","z">>,
    <<" ","G","R","O","U","P"," ","B","Y">>,
    <<" ","W","H","E","R","E"," ","g"," ","="," ","1"," ","G","R","O","U","P"," ","B","Y"," ","g">>
  }

\* the clauses combined with every head and aggregate
PriorityTails ==
  {
    <<>>,
    <<" ","W","H","E","R","E"," ","g"," ","="," ","'","a","'">>,
    <<" ","G","R","O","U","P"," ","B","Y"," ","g">>,
    <<" ","W","H","E","R","E"," ","g">>
  }

Queries ==
  QueryTails
  \cup {h \o a \o tl : h \in QueryHeads, a \in QueryAggregates, tl \in PriorityTails}
  \cup
  {
    <<"s","u","m">>,
    <<"A","v","g","(","x",")"," ","W","H","E","R","E"," ","g"," ","="," ","1">>
  }

(***************************************************************************)
(* The state: the table and columns list the caller holds, the last call   *)
(* made and what it returned.  The tools keep no state of their own.       *)
(***************************************************************************)
NoCall == [tool |-> "none", query |-> <<>>, chartType |-> <<>>, xAxis |-> <<>>, yAxis |-> <<>>]

NoResult == [pending |-> TRUE]

SQLCall(q) == [tool |-> "sql", query |-> q, chartType |-> <<>>, xAxis |-> <<>>, yAxis |-> <<>>]

VizCall(chartType, xAxis, yAxis) ==
  [tool |-> "viz", query |-> <<>>, chartType |-> chartType, xAxis |-> xAxis, yAxis |-> yAxis]

InitSQL ==
  /\ data \in SQLTables
  /\ columns \in SQLColumnLists
  /\ call = NoCall
  /\ result = NoResult

InitViz ==
  /\ data \in VizTables
  /\ columns \in VizColumnLists
  /\ call = NoCall
  /\ result = NoResult

\* both tools, each on short tables
Init ==
  /\ \/ data \in TablesUpTo(SQLRows, MaxBaseRows) /\ columns \in SQLColumnLists
     \/ data \in TablesUpTo(VizRows, MaxBaseRows) /\ columns \in VizColumnLists
  /\ call = NoCall
  /\ result = NoResult

\* one call of SQLQueryTool.execute({query, data, columns}), made when the caller
\* holds no result of an earlier call
SQLExecute ==
  /\ call = NoCall
  /\ \E q \in Queries :
       /\ call' = SQLCall(q)
       /\ result' = SQLExecuteResult(q, data, columns)
  /\ UNCHANGED <<data, columns>>

\* a call of VisualizationTool.execute, had it removed from the table the rows
\* whose y it cannot parse instead of skipping them
VizExecuteDroppingRows ==
  /\ call = NoCall
  /\ \E chartType \in ChartTypes, axes \in AxisPairs :
       /\ call' = VizCall(chartType, axes[1], axes[2])
       /\ result' = VizExecuteResult(data, columns, chartType, axes[1], axes[2])
       /\ data' = SelectSeq(data, LAMBDA row : ParseFloat(Get(row, axes[2])).t # "nan")
  /\ UNCHANGED columns

\* one call of VisualizationTool.execute({data, columns, chartType, xAxis, yAxis})
VizExecute ==
  /\ call = NoCall
  /\ \E chartType \in ChartTypes, axes \in AxisPairs :
       /\ call' = VizCall(chartType, axes[1], axes[2])
       /\ result' = VizExecuteResult(data, columns, chartType, axes[1], axes[2])
  /\ UNCHANGED <<data, columns>>

\* the caller drops the result: nothing of a call outlives it
Discard ==
  /\ call # NoCall
  /\ call' = NoCall
  /\ result' = NoResult
  /\ UNCHANGED <<data, columns>>

NextSQL == SQLExecute \/ Discard

NextViz == VizExecute \/ Discard

Next == SQLExecute \/ VizExecute \/ Discard

SpecSQL == InitSQL /\ [][NextSQL]_vars

SpecViz == InitViz /\ [][NextViz]_vars

Spec == Init /\ [][Next]_vars

(***************************************************************************)
(* Properties.                                                             *)
(***************************************************************************)
IsSQL == call.tool = "sql"

IsViz == call.tool = "viz"

UpperOfQuery == ToUpperCase(call.query)

HasSelectFrom == Includes(UpperOfQuery, kwSELECT) /\ Includes(UpperOfQuery, kwFROM)

HasAggregate ==
  Includes(UpperOfQuery, kwCOUNT) \/ Includes(UpperOfQuery, kwSUM) \/ Includes(UpperOfQuery, kwAVG)

HasGroupBy == Includes(UpperOfQuery, kwGROUPBY)

HasWhere == Includes(UpperOfQuery, kwWHERE)

\* the query is decided by rule 3 (GROUP BY), by rule 4 (WHERE)
ReachesGroupBy == ~HasSelectFrom /\ ~HasAggregate /\ HasGroupBy

ReachesWhere == ~HasSelectFrom /\ ~HasAggregate /\ ~HasGroupBy /\ HasWhere

\* C1: a query whose upper-cased text holds SELECT and FROM succeeds with
\* queryType SELECT and returns the whole input table, rows and order unchanged,
\* whatever else (WHERE, GROUP BY, COUNT, SUM, AVG) it holds.
C1_SelectReturnsTable ==
  (IsSQL /\ HasSelectFrom) =>
    /\ result.success = TRUE
    /\ result.queryType = "SELECT"
    /\ result.result = data

\* a SELECT ... FROM ... WHERE query whose WHERE clause, had it been applied,
\* would have dropped a row
C1_Witness ==
  /\ IsSQL /\ HasSelectFrom /\ HasWhere
  /\ result.queryType = "SELECT"
  /\ Len(ExecuteFilterQuery(call.query, data, columns).data) < Len(data)

\* the queryType the ordered rules give, rule 4 giving whereType
RuleQueryType(whereType) ==
  IF HasSelectFrom THEN "SELECT"
  ELSE IF HasAggregate THEN "AGGREGATE"
  ELSE IF HasGroupBy
    THEN (IF ListIncludes(columns, ExtractGroupByColumn(call.query)) THEN "GROUP_BY" ELSE "SELECT")
  ELSE IF HasWhere THEN whereType
  ELSE "SELECT"

\* C2 as claimed: the queryType is that of the first matching rule, and every
\* query that reaches rule 4 and holds WHERE is tagged FILTER.
C2_Original == IsSQL => result.queryType = RuleQueryType("FILTER")

\* C2 as amended: the queryType is that of the first matching rule, rule 4
\* giving FILTER when the WHERE pattern extracts a non-empty clause and SELECT
\* when it extracts none.
C2_RuleOrder ==
  IsSQL => result.queryType =
             RuleQueryType(IF ExtractFilterCondition(call.query) # <<>> THEN "FILTER" ELSE "SELECT")

\* a query that reaches rule 4, holds WHERE and is tagged SELECT
C2_Witness == IsSQL /\ ReachesWhere /\ result.queryType = "SELECT"

\* the group label of a row as C3 counts it: the stringified value, a null or
\* missing value being "Unknown"
StringifiedGroup(row, col) ==
  LET v == Get(row, col)
  IN IF v.t \in {"null", "undef"} THEN sUnknown ELSE ToString(v)

\* C3: a GROUP_BY execution on a group-by column of the columns list returns as
\* many rows as the column has distinct stringified values (null or missing
\* counting as "Unknown"), in first-seen order of those values.
C3_GroupPerStringifiedValue ==
  (IsSQL /\ result.queryType = "GROUP_BY") =>
    LET g == ExtractGroupByColumn(call.query)
        labels == [i \in 1..Len(data) |-> StringifiedGroup(data[i], g)]
    IN /\ Len(result.result) = Cardinality(Range(labels))
       /\ [j \in 1..Len(result.result) |-> StringifiedGroup(result.result[j], g)] = FirstSeen(labels)

\* a value that parses as a finite number: a number, or a non-empty string that
\* is a whole number from its first character to its last
ParsesAsNumber(v) ==
  \/ v.t = "num"
  \/ /\ v.t = "str"
     /\ LET body == IF v.s # <<>> /\ v.s[1] \in {"-", "+"} THEN Tail(v.s) ELSE v.s
        IN body # <<>> /\ \A i \in 1..Len(body) : IsDigit(body[i])

\* the values of a column that parse as finite numbers, as numbers
ParsedValues(rows, col) ==
  LET vs == SelectSeq([i \in 1..Len(rows) |-> Get(rows[i], col)], LAMBDA v : ParsesAsNumber(v))
  IN [i \in 1..Len(vs) |-> ParseFloat(vs[i])]

\* every key of every row
AllKeys(rows) == UNION {Range(Keys(rows[i])) : i \in 1..Len(rows)}

\* the clause of a FILTER query read as <column> = <value>: split at the first =
ClauseColumn(clause) == Trim(SplitEq(clause)[1])

ClauseValue(clause) == Trim(SubSeq(clause, Len(SplitEq(clause)[1]) + 2, Len(clause)))

\* a literal without the quotes around it
Unquoted(s) ==
  IF Len(s) >= 2 /\ s[1] \in {"'", "\""} /\ s[Len(s)] = s[1] THEN SubSeq(s, 2, Len(s) - 1) ELSE s

\* C4: a FILTER on a clause <column> = <value> returns exactly the input rows,
\* in input order, whose stringified value of the column equals the value
\* without its surrounding quotes; a row lacking the column never matches.
C4_FilterEquality ==
  LET clause == ExtractFilterCondition(call.query)
  IN (/\ IsSQL /\ result.queryType = "FILTER"
      /\ Len(SplitEq(clause)) >= 2
      /\ ClauseColumn(clause) # <<>> /\ ClauseValue(clause) # <<>>) =>
       result.result =
         SelectSeq(data, LAMBDA row :
           LET v == Get(row, ClauseColumn(clause))
           IN v.t \notin {"null", "undef"} /\ ToString(v) = Unquoted(ClauseValue(clause)))

\* C5: an AGGREGATE execution returns one row; for every numeric column c,
\* count_c is the number of values of c in the whole table that parse as finite
\* numbers, sum_c their sum, avg_c = sum_c / count_c, min_c and max_c their
\* extremes; a column with no such value contributes no field.
C5_AggregateParsedValues ==
  (IsSQL /\ result.queryType = "AGGREGATE") =>
    /\ Len(result.result) = 1
    /\ \A c \in Range(GetNumericColumns(data)) :
         LET vals == ParsedValues(data, c)
             row == result.result[1]
         IN /\ Get(row, Field(<<"c","o","u","n","t">>, c)) = Num(Len(vals))
            /\ Get(row, Field(<<"s","u","m">>, c)) = Num(SumOf(vals))
            /\ Get(row, Field(<<"a","v","g">>, c)) = Rat(SumOf(vals), Len(vals))
            /\ Get(row, Field(<<"m","i","n">>, c)) = MinOf(vals)
            /\ Get(row, Field(<<"m","a","x">>, c)) = MaxOf(vals)
    /\ \A c \in AllKeys(data) :
         Len(ParsedValues(data, c)) = 0 =>
           \A prefix \in {<<"c","o","u","n","t">>, <<"s","u","m">>, <<"a","v","g">>,
                          <<"m","i","n">>, <<"m","a","x">>} :
             Get(result.result[1], Field(prefix, c)) = Undefined

\* the x values of the table that parseFloat reads as a number
ParseableX == 
  SelectSeq([i \in 1..Len(data) |-> ParseFloat(Get(data[i], call.xAxis))], LAMBDA v : v.t # "nan")

\* the sum of the fields y of a series
RECURSIVE SumY(_)
SumY(series) == IF series = <<>> THEN 0 ELSE Head(series).y + SumY(Tail(series))

\* C6: the histogram series has min(10, ceil(sqrt(n))) points and its bin counts
\* sum to n, the number of parseable x values, also when max = min.
C6_HistogramCountsAll ==
  (IsViz /\ result.success /\ call.chartType = tHistogram) =>
    LET n == Len(ParseableX)
    IN /\ Len(result.chartData) = Min(HistogramMaxBins, CeilSqrt(n))
       /\ SumY(result.chartData) = n

\* the parseable y values of the rows of one box group, in row order
BoxGroupY(xValue) ==
  LET own == SelectSeq(data, LAMBDA row :
               XValue(row, call.xAxis) = xValue /\ ParseFloat(Get(row, call.yAxis)).t # "nan")
  IN [i \in 1..Len(own) |-> ParseFloat(Get(own[i], call.yAxis))]

\* v is the element at index idx (from 0) of the values ys sorted ascending
IsAtSortedIndex(v, ys, idx) ==
  /\ v \in Range(ys)
  /\ Cardinality({i \in 1..Len(ys) : NumLess(ys[i], v)}) <= idx
  /\ Cardinality({i \in 1..Len(ys) : NumLeq(ys[i], v)}) > idx

\* C7: every entry of the box series has min <= q1 <= median <= q3 <= max, min
\* and max being the smallest and largest parseable y of the group and q1,
\* median, q3 the elements at index floor(n/4), floor(n/2), floor(3n/4) of the
\* group's parseable y values sorted ascending, indices within 0..n-1.
C7_BoxOrdered ==
  (IsViz /\ result.success /\ call.chartType = tBox) =>
    \A j \in 1..Len(result.chartData) :
      LET e == result.chartData[j]
          ys == BoxGroupY(e.x)
          n == Len(ys)
      IN /\ n >= 1
         /\ NumLeq(e.min, e.q1) /\ NumLeq(e.q1, e.median)
         /\ NumLeq(e.median, e.q3) /\ NumLeq(e.q3, e.max)
         /\ e.min = MinOf(ys) /\ e.max = MaxOf(ys)
         /\ (3 * n) \div 4 <= n - 1
         /\ IsAtSortedIndex(e.q1, ys, n \div 4)
         /\ IsAtSortedIndex(e.median, ys, n \div 2)
         /\ IsAtSortedIndex(e.q3, ys, (3 * n) \div 4)

\* a box group of at least four values that the rows give out of order, with
\* quartiles that differ
C7_Witness ==
  /\ IsViz /\ result.success /\ call.chartType = tBox
  /\ \E j \in 1..Len(result.chartData) :
       LET e == result.chartData[j]
           ys == BoxGroupY(e.x)
       IN /\ Len(ys) >= 4
          /\ NumLess(ys[2], ys[1])
          /\ NumLess(e.q1, e.q3)

\* C8: soft degradation keeps every row: a GROUP BY query whose extracted
\* identifier is not in the columns list, and a WHERE query whose clause has no
\* = or an empty column part, both succeed and return the whole input table.
C8_SoftDegradation ==
  LET clause == ExtractFilterCondition(call.query)
      unreadable == (\A i \in 1..Len(clause) : clause[i] # "=") \/ SplitEq(clause)[1] = <<>>
  IN (/\ IsSQL
      /\ \/ ReachesGroupBy /\ ~ListIncludes(columns, ExtractGroupByColumn(call.query))
         \/ ReachesWhere /\ unreadable) =>
       result.success = TRUE /\ result.result = data

\* a WHERE query with a clause that holds no =, run as a FILTER on a table
\* with rows
C8_Witness ==
  /\ IsSQL /\ ReachesWhere
  /\ result.queryType = "FILTER"
  /\ \A i \in 1..Len(ExtractFilterCondition(call.query)) : ExtractFilterCondition(call.query)[i] # "="
  /\ Len(data) >= 2

\* C9: with xAxis or yAxis outside the columns list, whatever the chart type,
\* VisualizationTool.execute returns success = false with an error and nothing
\* else; and every result of either tool is success = true without an error, or
\* success = false with an error and no other field.
C9_FailureShape ==
  /\ (IsViz /\ (~ListIncludes(columns, call.xAxis) \/ ~ListIncludes(columns, call.yAxis))) =>
       result.success = FALSE /\ DOMAIN result = {"success", "error"}
  /\ (IsSQL \/ IsViz) =>
       \/ result.success = TRUE /\ "error" \notin DOMAIN result
       \/ result.success = FALSE /\ DOMAIN result = {"success", "error"}

\* a histogram, which reads no y, refused for its yAxis alone
C9_Witness ==
  /\ IsViz /\ call.chartType = tHistogram
  /\ ListIncludes(columns, call.xAxis) /\ ~ListIncludes(columns, call.yAxis)
  /\ result.success = FALSE

\* C10: a successful call holds the "more than 10 categories" recommendation
\* exactly when the chart type is pie and the table has more than 10 rows.
C10_PieAdvice ==
  (IsViz /\ result.success) =>
    (PieAdvice \in Range(result.recommendations)
       <=> (call.chartType = tPie /\ Len(data) > 10))

\* a pie chart of 15 rows, with the recommendation
C10_Witness ==
  /\ IsViz /\ result.success /\ call.chartType = tPie
  /\ Len(data) = 15
  /\ PieAdvice \in Range(result.recommendations)

\* the result of the call c made as the first call on the table rows
FirstCallResult(c, rows, cols) ==
  IF c.tool = "sql" THEN SQLExecuteResult(c.query, rows, cols)
  ELSE VizExecuteResult(rows, cols, c.chartType, c.xAxis, c.yAxis)

SampledRows(rows) == SubSeq(rows, 1, Min(SampleSize, Len(rows)))

\* C12: of the table a summary describes, a column is reported Numeric exactly
\* when one of its values in the first 10 rows is a number or a non-empty string
\* that parses as a finite number, and Categorical otherwise; the two lists
\* share no column.
C12_ColumnClassification ==
  IsSQL =>
    LET numeric == Range(result.summary.numericColumns)
        categorical == Range(result.summary.categoricalColumns)
        sample == SampledRows(result.result)
    IN /\ numeric \cap categorical = {}
       /\ \A c \in AllKeys(result.result) :
            IF \E i \in 1..Len(sample) : ParsesAsNumber(Get(sample[i], c))
            THEN c \in numeric
            ELSE c \in categorical

\* a successful call for a bar or a line chart
IsCategorical == IsViz /\ result.success /\ call.chartType \in {tBar, tLine}

\* the rows of the table whose y parseFloat reads as a number
RowsWithY == SelectSeq(data, LAMBDA row : ParseFloat(Get(row, call.yAxis)).t # "nan")

\* every entry holds the number of rows of its group whose y parses and their
\* mean, and the counts add up to the number of rows whose y parses
CountsAndMeans ==
  /\ \A j \in 1..Len(result.chartData) :
       LET e == result.chartData[j]
           ys == BoxGroupY(e.x)
       IN /\ e.count = Len(ys)
          /\ Len(ys) > 0 => e.y = Rat(SumOf(ys), Len(ys))
  /\ SumOf([j \in 1..Len(result.chartData) |-> Num(result.chartData[j].count)]) = Len(RowsWithY)

\* C13 as stated: a bar or line series has one entry per distinct stringified x
\* value of the table (missing x being "Unknown"), in first-seen order, each
\* with the number and the mean of the parseable y of its group.
C13_Original ==
  IsCategorical =>
    /\ [j \in 1..Len(result.chartData) |-> result.chartData[j].x]
         = FirstSeen([i \in 1..Len(data) |-> XValue(data[i], call.xAxis)])
    /\ CountsAndMeans

\* C13: a bar or line series has one entry per distinct stringified x value of
\* the rows whose y parses (missing x being "Unknown"), in first-seen order
\* among those rows; each entry's count is the number of rows of its group whose
\* y parses, its y their mean, and the counts add up to the number of such rows.
C13_CategoricalSeries ==
  IsCategorical =>
    /\ [j \in 1..Len(result.chartData) |-> result.chartData[j].x]
         = FirstSeen([i \in 1..Len(RowsWithY) |-> XValue(RowsWithY[i], call.xAxis)])
    /\ CountsAndMeans

\* a series with a group of two rows or more, of a table that has an x value
\* none of whose rows has a y that parses
C13_Witness ==
  /\ IsCategorical
  /\ \E j \in 1..Len(result.chartData) :
       result.chartData[j].count >= 2 /\ result.chartData[j].y # Num(SumOf(BoxGroupY(result.chartData[j].x)))
  /\ \E i \in 1..Len(data) :
       \A j \in 1..Len(result.chartData) : result.chartData[j].x # XValue(data[i], call.xAxis)

====
